---- MODULE Spec2Model ----
(***************************************************************************)
(* Model of the invoice claim / process / finalize pipeline of             *)
(* src/tools/print.py: the job table dbo.Kthimi_InvoiceStatus, the three   *)
(* queue statements (claim_invoices, finalize_invoice, revert_invoice),    *)
(* the worker function process_and_print_invoice and the polling loop of   *)
(* the __main__ block, run by several orchestrator processes against the   *)
(* same table.                                                             *)
(***************************************************************************)
EXTENDS Integers, FiniteSets, Sequences

(* ------------------------------ bounds -------------------------------- *)
\* Rows of dbo.Kthimi_InvoiceStatus.
NumJobs == 3
\* Pool size and batch size of the polling loop. MAX_WORKERS is 5 in the
\* source (print.py:54); the model scales it so that TOP (batch_size) cuts a
\* batch with NumJobs rows.
MaxWorkers == 2
\* Largest batch_size argument tried on claim_invoices called on its own.
MaxBatch == 3

Jobs == 1..NumJobs
\* The orchestrator processes polling the same table.
Procs == {1, 2}

(* --------------------------- table encoding --------------------------- *)
\* Column Printed of dbo.Kthimi_InvoiceStatus.
PENDING == 0
PRINTED == 1
PROCESSING == 2
\* Column Status: the value a row must have to be claimable.
ELIGIBLE == 1

(* ------------------------------ stages -------------------------------- *)
\* Position of one worker thread inside process_and_print_invoice, and the
\* state of its Future once the function has returned or raised.
RunningStages ==
    {"claimed", "assembled", "encrypted", "rendered", "archived", "notified",
     "print_sent", "print_skipped", "print_error"}
PrintedStages == {"print_sent", "print_skipped", "print_error"}
\* Future done: returned normally / raised.
DoneStages == {"ok", "exc"}
\* "none": process p has no future for the job (never submitted, or its
\* future was handled by the as_completed loop).
Stages == {"none"} \cup RunningStages \cup DoneStages
\* What the current or last processing run of a job has come to: nothing
\* yet, a stage at or before the email raised, the relay accepted the email.
RunOutcomes == {"none", "failed", "sent"}

\* Outcomes of find_printer_ip_cached and of send_raw_to_printer.
Resolutions == {"no_unit", "cache_hit", "scan_hit", "not_found", "excluded"}
Dispatches == {"sent", "connect_error", "send_error"}
\* Outcomes of send_email_with_attachment.
EmailOutcomes == {"sent", "no_recipient", "retries_exhausted"}

VARIABLES
    printed,    \* Printed column, committed value, per row
    status,     \* Status column, per row
    pc,         \* per process: position in the polling loop
    txRows,     \* per process: rows updated and X-locked by its open claim tx
    futures,    \* per process: futures of future_to_id not yet handled
    stage,      \* per process and job: its worker / future for that job
    run,        \* per job: outcome of its current or last processing run
    call,       \* last queue statement run on its own: [op, arg, ret]
    mail,       \* one call of send_email_with_attachment
    pcache,     \* _PRINTER_CACHE, the clock and the last resolve
    money,      \* invoice lines and the totals computed from them
    qr,         \* two invoices and the artifact image path given to each
    disp,       \* one call of send_raw_to_printer
    crypt,      \* one call of create_encrypted_qr and the payload it encodes
    fs,         \* the files of FATURA_template while two workers run
    sched       \* the sales outbox scheduler of sales_service.py

\* The functions of print.py checked on their own, outside the loop.
aux == <<crypt, fs, sched>>

comp == <<mail, pcache, money, qr, disp, aux>>

vars == <<printed, status, pc, txRows, futures, stage, run, call, comp>>

\* Value of a component variable while its function is not being called.
NotInUse == [st |-> "unused"]
AuxIdle ==
    /\ crypt = NotInUse
    /\ fs = NotInUse
    /\ sched = NotInUse

CompIdle ==
    /\ AuxIdle
    /\ mail = NotInUse
    /\ pcache = NotInUse
    /\ money = NotInUse
    /\ qr = NotInUse
    /\ disp = NotInUse

(* ------------------------ the queue statements ------------------------ *)
Min(a, b) == IF a < b THEN a ELSE b

\* Rows holding an X lock of an open claim transaction of a process other
\* than p.
LockedByOther(p) == UNION {txRows[q] : q \in Procs \ {p}}

\* Variant: the statement reads past nothing and takes rows that another
\* open claim transaction has locked.
ClaimCandidatesNoLock(tbl, st, locked) ==
    {j \in Jobs : tbl[j] = PENDING /\ st[j] = ELIGIBLE}

\* Variant: WHERE Status = 1 only.
ClaimCandidatesAnyPrinted(tbl, st, locked) ==
    {j \in Jobs : st[j] = ELIGIBLE /\ j \notin locked}

\* WHERE Printed = 0 AND Status = 1, WITH (ROWLOCK, READPAST, UPDLOCK):
\* rows locked by another transaction are skipped, not waited for.
ClaimCandidates(tbl, st, locked) ==
    {j \in Jobs : tbl[j] = PENDING /\ st[j] = ELIGIBLE /\ j \notin locked}

\* Variant: UPDATE without TOP (n).
TopNUnlimited(cands, n) == {cands}

\* UPDATE TOP (n): any n of the qualifying rows, all of them if fewer.
TopN(cands, n) ==
    {S \in SUBSET cands : Cardinality(S) = Min(n, Cardinality(cands))}

\* SET Printed = 2 on the chosen rows.
ClaimUpdate(tbl, S) == [j \in Jobs |-> IF j \in S THEN PROCESSING ELSE tbl[j]]

\* Variant: WHERE ID_Fatura=? only.
FinalizeInvoiceAnyState(tbl, id) ==
    [j \in Jobs |-> IF j = id THEN PRINTED ELSE tbl[j]]

\* UPDATE ... SET Printed=1 WHERE ID_Fatura=? AND Printed=2
FinalizeInvoice(tbl, id) ==
    [j \in Jobs |-> IF j = id /\ tbl[j] = PROCESSING THEN PRINTED ELSE tbl[j]]

\* UPDATE ... SET Printed=0 WHERE ID_Fatura=? AND Printed=2
RevertInvoice(tbl, id) ==
    [j \in Jobs |-> IF j = id /\ tbl[j] = PROCESSING THEN PENDING ELSE tbl[j]]

NoCall == [op |-> "none", arg |-> 0, ret |-> {}]

(* ------------------------------- Init --------------------------------- *)
Idle ==
    /\ pc = [p \in Procs |-> "poll"]
    /\ txRows = [p \in Procs |-> {}]
    /\ futures = [p \in Procs |-> {}]
    /\ stage = [p \in Procs |-> [j \in Jobs |-> "none"]]
    /\ run = [j \in Jobs |-> "none"]

Init ==
    /\ printed = [j \in Jobs |-> PENDING]
    /\ status \in [Jobs -> {0, ELIGIBLE}]
    /\ Idle
    /\ call = NoCall
    /\ CompIdle

(* ------------------------- the polling loop --------------------------- *)
\* claim_invoices, cur.execute(UPDATE TOP ...): the statement locks and
\* updates its rows; the new values are uncommitted until conn.commit().
ClaimExecute(p) ==
    /\ pc[p] = "poll"
    /\ \E S \in TopN(ClaimCandidates(printed, status, LockedByOther(p)), MaxWorkers) :
          /\ S # {}
          /\ txRows' = [txRows EXCEPT ![p] = S]
    /\ pc' = [pc EXCEPT ![p] = "claiming"]
    /\ UNCHANGED <<printed, status, futures, stage, run, call, comp>>

\* The statement finds no row (none Pending and eligible, or all of them
\* locked): it commits nothing, claim_invoices returns [] and the loop logs
\* "No invoices to process." and starts over.
ClaimNone(p) ==
    /\ pc[p] = "poll"
    /\ ClaimCandidates(printed, status, LockedByOther(p)) = {}
    /\ UNCHANGED vars

\* create_connection or cur.execute raises: the outer except logs and the
\* while loop starts over.
ClaimFail(p) ==
    /\ pc[p] = "poll"
    /\ UNCHANGED vars

\* conn.commit() raises, the transaction is rolled back: locks released,
\* no row changed; the outer except logs.
ClaimCommitFail(p) ==
    /\ pc[p] = "claiming"
    /\ pc' = [pc EXCEPT ![p] = "poll"]
    /\ txRows' = [txRows EXCEPT ![p] = {}]
    /\ UNCHANGED <<printed, status, futures, stage, run, call, comp>>

\* conn.commit(), return ids; then the loop submits one future per id
\* (future_to_id replaces the previous batch's dict).
ClaimCommit(p) ==
    /\ pc[p] = "claiming"
    /\ printed' = ClaimUpdate(printed, txRows[p])
    /\ txRows' = [txRows EXCEPT ![p] = {}]
    /\ futures' = [futures EXCEPT ![p] = txRows[p]]
    /\ stage' = [stage EXCEPT ![p] =
          [j \in Jobs |-> IF j \in txRows[p] THEN "claimed" ELSE stage[p][j]]]
    /\ run' = [j \in Jobs |-> IF j \in txRows[p] THEN "none" ELSE run[j]]
    /\ pc' = [pc EXCEPT ![p] = "collect"]
    /\ UNCHANGED <<status, call, comp>>

\* After handling one future: back to the top of the while loop when
\* as_completed is exhausted.
AfterHandled(p, j) ==
    /\ futures' = [futures EXCEPT ![p] = @ \ {j}]
    /\ pc' = [pc EXCEPT ![p] = IF futures[p] \ {j} = {} THEN "poll" ELSE "collect"]

\* future.result() returned; finalize_invoice(inv_id) committed.
HandleOkFinalize(p, j) ==
    /\ pc[p] = "collect" /\ j \in futures[p] /\ stage[p][j] = "ok"
    /\ printed' = FinalizeInvoice(printed, j)
    /\ stage' = [stage EXCEPT ![p][j] = "none"]
    /\ AfterHandled(p, j)
    /\ UNCHANGED <<status, txRows, run, call, comp>>

\* future.result() returned; finalize_invoice(inv_id) raised inside the try
\* block, so the except branch runs revert_invoice(inv_id), which commits.
HandleOkFinalizeRaisedRevert(p, j) ==
    /\ pc[p] = "collect" /\ j \in futures[p] /\ stage[p][j] = "ok"
    /\ printed' = RevertInvoice(printed, j)
    /\ stage' = [stage EXCEPT ![p][j] = "none"]
    /\ AfterHandled(p, j)
    /\ UNCHANGED <<status, txRows, run, call, comp>>

\* future.result() raised; revert_invoice(inv_id) committed.
HandleExcRevert(p, j) ==
    /\ pc[p] = "collect" /\ j \in futures[p] /\ stage[p][j] = "exc"
    /\ printed' = RevertInvoice(printed, j)
    /\ stage' = [stage EXCEPT ![p][j] = "none"]
    /\ AfterHandled(p, j)
    /\ UNCHANGED <<status, txRows, run, call, comp>>

\* revert_invoice raised inside the except branch (after a failed run, or
\* after finalize_invoice raised): the exception leaves the for loop, the
\* outer except logs it and the while loop starts over with a new claim.
\* The futures not yet handled keep running in the executor; nothing
\* collects them any more.
HandleRevertRaised(p, j) ==
    /\ pc[p] = "collect" /\ j \in futures[p] /\ stage[p][j] \in DoneStages
    /\ futures' = [futures EXCEPT ![p] = {}]
    /\ pc' = [pc EXCEPT ![p] = "poll"]
    /\ UNCHANGED <<printed, status, txRows, stage, run, call, comp>>

\* Hard crash of the process and its restart: threads and the open
\* transaction are gone (rollback), the table keeps its committed values.
CrashRestart(p) ==
    /\ pc' = [pc EXCEPT ![p] = "poll"]
    /\ txRows' = [txRows EXCEPT ![p] = {}]
    /\ futures' = [futures EXCEPT ![p] = {}]
    /\ stage' = [stage EXCEPT ![p] = [j \in Jobs |-> "none"]]
    /\ UNCHANGED <<printed, status, run, call, comp>>

(* ----------------------- process_and_print_invoice -------------------- *)
\* The worker of process p for job j moves to stage `to`; `to` = "exc" is
\* the exception leaving process_and_print_invoice into the future. r is
\* what the run has come to after the step.
StageStep(p, j, to, r) ==
    /\ stage' = [stage EXCEPT ![p][j] = to]
    /\ run' = [run EXCEPT ![j] = r]
    /\ UNCHANGED <<printed, status, pc, txRows, futures, call, comp>>

\* A stage before the email raised, or not.
Raised(j, to) == IF to = "exc" THEN "failed" ELSE run[j]

\* 1) get_invoice_details returns None -> RuntimeError; otherwise the line
\* items are read and map_data_for_template builds the snapshot.
AssembleResult(headerFound) == IF headerFound THEN "assembled" ELSE "exc"

Assemble(p, j) ==
    /\ stage[p][j] = "claimed"
    /\ \E headerFound \in BOOLEAN :
          LET to == AssembleResult(headerFound) IN StageStep(p, j, to, Raised(j, to))

\* 2) create_encrypted_qr logs and re-raises any exception.
EncryptResult(created) == IF created THEN "encrypted" ELSE "exc"

Encrypt(p, j) ==
    /\ stage[p][j] = "assembled"
    /\ \E created \in BOOLEAN :
          LET to == EncryptResult(created) IN StageStep(p, j, to, Raised(j, to))

\* 3) populate_html_and_generate_pdf: a rendering error propagates.
RenderResult(rendered) == IF rendered THEN "rendered" ELSE "exc"

Render(p, j) ==
    /\ stage[p][j] = "encrypted"
    /\ \E rendered \in BOOLEAN :
          LET to == RenderResult(rendered) IN StageStep(p, j, to, Raised(j, to))

\* 4) zipfile.ZipFile(...).write: an archive error propagates.
ArchiveResult(zipped) == IF zipped THEN "archived" ELSE "exc"

Archive(p, j) ==
    /\ stage[p][j] = "rendered"
    /\ \E zipped \in BOOLEAN :
          LET to == ArchiveResult(zipped) IN StageStep(p, j, to, Raised(j, to))

\* Variant: the last SMTP error is logged and not re-raised.
EmailResultSwallowed(e) == IF e = "no_recipient" THEN "exc" ELSE "notified"

\* 6) send_email_with_attachment returns after a successful attempt, raises
\* ValueError when no "to" address is valid, and re-raises the SMTP error
\* of the last attempt.
EmailResult(e) == IF e = "sent" THEN "notified" ELSE "exc"

\* The relay accepted the message, or no delivery took place.
Delivery(e) == IF e = "sent" THEN "sent" ELSE "failed"

Notify(p, j) ==
    /\ stage[p][j] = "archived"
    /\ \E e \in EmailOutcomes : StageStep(p, j, EmailResult(e), Delivery(e))

\* find_printer_ip_cached returns an address on a cache hit or a scan hit
\* and None otherwise; njesia_value falsy skips the lookup.
PrinterIp(res) == IF res \in {"cache_hit", "scan_hit"} THEN "ip" ELSE "None"

\* Variant: a connection or send error of the printer leaves the function.
PrintResultRaising(res, d) ==
    IF PrinterIp(res) = "None" THEN "print_skipped"
    ELSE IF d = "sent" THEN "print_sent"
    ELSE "exc"

\* 7) Printing: send_raw_to_printer catches every exception of the
\* connection and of sendall, and the call is wrapped in try/except as well.
PrintResult(res, d) ==
    IF PrinterIp(res) = "None" THEN "print_skipped"
    ELSE IF d = "sent" THEN "print_sent"
    ELSE "print_error"

Printing(p, j) ==
    /\ stage[p][j] = "notified"
    /\ \E to \in {PrintResult(res, d) : res \in Resolutions, d \in Dispatches} :
          StageStep(p, j, to, run[j])

\* 8) Cleanup: os.remove of the PDF and of the artifact image; OSError is
\* logged. The function then returns None.
CleanupResult(removed) == "ok"

Cleanup(p, j) ==
    /\ stage[p][j] \in PrintedStages
    /\ \E removed \in BOOLEAN : StageStep(p, j, CleanupResult(removed), run[j])

(* --------------------------- specification ---------------------------- *)
Worker(p, j) ==
    \/ Assemble(p, j)
    \/ Encrypt(p, j)
    \/ Render(p, j)
    \/ Archive(p, j)
    \/ Notify(p, j)
    \/ Printing(p, j)
    \/ Cleanup(p, j)

Handle(p, j) ==
    \/ HandleOkFinalize(p, j)
    \/ HandleOkFinalizeRaisedRevert(p, j)
    \/ HandleExcRevert(p, j)
    \/ HandleRevertRaised(p, j)

Poll(p) ==
    \/ ClaimExecute(p)
    \/ ClaimNone(p)
    \/ ClaimFail(p)
    \/ ClaimCommit(p)
    \/ ClaimCommitFail(p)

\* The loop and its workers, the process staying up.
NoCrashNext ==
    \/ \E p \in Procs : Poll(p)
    \/ \E p \in Procs, j \in Jobs : Handle(p, j)
    \/ \E p \in Procs, j \in Jobs : Worker(p, j)

Next ==
    \/ NoCrashNext
    \/ \E p \in Procs : CrashRestart(p)

Spec == Init /\ [][Next]_vars

\* Scheduling: the while loop of a running process keeps iterating, the
\* as_completed loop handles every completed future it still waits for, and
\* every stage of a worker thread returns or raises (bounded timeouts).
\* Nothing forces a crash.
Fairness ==
    /\ \A p \in Procs : WF_vars(Poll(p))
    /\ \A p \in Procs, j \in Jobs : WF_vars(Handle(p, j))
    /\ \A p \in Procs, j \in Jobs : WF_vars(Worker(p, j))

\* No process ever crashes.
LoopSpec == Init /\ [][NoCrashNext]_vars /\ Fairness

\* Processes may crash and are restarted.
FairSpec == Init /\ [][Next]_vars /\ Fairness

(* ---------------- the queue statements called on their own ------------ *)
\* Any table contents, any caller: claim_invoices(batch_size),
\* finalize_invoice(id) and revert_invoice(id) as single committed calls.
QInit ==
    /\ printed \in [Jobs -> {PENDING, PRINTED, PROCESSING}]
    /\ status \in [Jobs -> {0, ELIGIBLE}]
    /\ Idle
    /\ call = NoCall
    /\ CompIdle

QClaim(b) ==
    /\ \E S \in TopN(ClaimCandidates(printed, status, {}), b) :
          /\ printed' = ClaimUpdate(printed, S)
          /\ call' = [op |-> "claim", arg |-> b, ret |-> S]
    /\ UNCHANGED <<status, pc, txRows, futures, stage, run, comp>>

QFinalize(id) ==
    /\ printed' = FinalizeInvoice(printed, id)
    /\ call' = [op |-> "finalize", arg |-> id, ret |-> {}]
    /\ UNCHANGED <<status, pc, txRows, futures, stage, run, comp>>

QRevert(id) ==
    /\ printed' = RevertInvoice(printed, id)
    /\ call' = [op |-> "revert", arg |-> id, ret |-> {}]
    /\ UNCHANGED <<status, pc, txRows, futures, stage, run, comp>>

QNext ==
    \/ \E b \in 0..MaxBatch : QClaim(b)
    \/ \E id \in Jobs : QFinalize(id)
    \/ \E id \in Jobs : QRevert(id)

QSpec == QInit /\ [][QNext]_vars

(* ------------------------------ properties ---------------------------- *)
\* Jobs process p has claimed and neither finalized nor reverted.
Held(p) == {j \in Jobs : stage[p][j] # "none"}

\* C1: the rows of concurrently open claims and the jobs held by different
\* processes are pairwise disjoint, and no open claim contains a job that
\* is Processing: no job is held by two claimers at once.
C1_ClaimsDisjoint ==
    /\ \A p, q \in Procs :
          p # q => (txRows[p] \cup Held(p)) \cap (txRows[q] \cup Held(q)) = {}
    /\ \A p \in Procs : \A j \in txRows[p] : printed[j] = PENDING /\ j \notin Held(p)

\* Two claims are open at once, each with rows of its own.
C1_Witness ==
    /\ pc[1] = "claiming" /\ pc[2] = "claiming"
    /\ txRows[1] # {} /\ txRows[2] # {}

\* C2: a call claim_invoices(b) returns at most b ids; each returned id was
\* Pending and eligible before the call and is Processing after it; the
\* rows whose state changed are exactly the returned ones (so Processing,
\* Printed and ineligible rows are neither returned nor changed).
C2_ClaimContract ==
    [][call'.op = "claim" =>
          LET ids == call'.ret IN
          /\ Cardinality(ids) <= call'.arg
          /\ \A j \in ids :
                printed[j] = PENDING /\ status[j] = ELIGIBLE /\ printed'[j] = PROCESSING
          /\ {j \in Jobs : printed'[j] # printed[j]} = ids
          /\ status' = status]_vars

\* A claim returned a full batch and left a Pending eligible row behind.
C2_Witness ==
    /\ call.op = "claim"
    /\ call.ret # {}
    /\ Cardinality(call.ret) = call.arg
    /\ \E j \in Jobs \ call.ret : printed[j] = PENDING /\ status[j] = ELIGIBLE
    /\ \E j \in Jobs \ call.ret : printed[j] = PROCESSING

\* C3: finalize_invoice(id) moves id to Printed exactly when it is
\* Processing, revert_invoice(id) moves it to Pending exactly when it is
\* Processing; otherwise the row is unchanged; no other row changes; the
\* same call made a second time in a row changes nothing.
C3_FinalizeRevertNoOp ==
    [][/\ call'.op = "finalize" =>
             LET id == call'.arg IN
             /\ printed'[id] = (IF printed[id] = PROCESSING THEN PRINTED ELSE printed[id])
             /\ \A j \in Jobs \ {id} : printed'[j] = printed[j]
             /\ FinalizeInvoice(printed', id) = printed'
       /\ call'.op = "revert" =>
             LET id == call'.arg IN
             /\ printed'[id] = (IF printed[id] = PROCESSING THEN PENDING ELSE printed[id])
             /\ \A j \in Jobs \ {id} : printed'[j] = printed[j]
             /\ RevertInvoice(printed', id) = printed']_vars

\* finalize_invoice was called on a job that was not Processing (it is
\* Pending still, which no finalize produces), another job being Processing.
C3_Witness ==
    /\ call.op = "finalize"
    /\ printed[call.arg] = PENDING
    /\ \E j \in Jobs \ {call.arg} : printed[j] = PROCESSING

\* C4: Printed is always one of the three states, and a row changes only
\* Pending -> Processing at the commit of a claim that holds it, or
\* Processing -> Printed / Pending when the process holding it handles its
\* future; a Printed row stays Printed and enters no claim.
C4_Transitions ==
    /\ [](\A j \in Jobs : printed[j] \in {PENDING, PRINTED, PROCESSING})
    /\ [][\A j \in Jobs :
            /\ printed'[j] # printed[j] =>
                  \/ /\ printed[j] = PENDING /\ printed'[j] = PROCESSING
                     /\ \E p \in Procs :
                           pc[p] = "claiming" /\ j \in txRows[p] /\ j \in futures'[p]
                  \/ /\ printed[j] = PROCESSING /\ printed'[j] \in {PRINTED, PENDING}
                     /\ \E p \in Procs :
                           pc[p] = "collect" /\ j \in futures[p] /\ j \notin futures'[p]
            /\ printed[j] = PRINTED =>
                  printed'[j] = PRINTED /\ \A p \in Procs : j \notin txRows'[p]]_vars

\* A job is Printed while a later claim is open.
C4_Witness ==
    \E j \in Jobs, p \in Procs :
        printed[j] = PRINTED /\ pc[p] = "claiming" /\ txRows[p] # {}

\* C5: with no process crashing, every job a claim moved to Processing is
\* eventually moved out of Processing.
C5_ClaimedJobResolves ==
    \A j \in Jobs : (printed[j] = PROCESSING) ~> (printed[j] # PROCESSING)

\* C6: a job left Processing by a crash (no process holds it) is eventually
\* Pending again.
C6_CrashedJobRecovered ==
    \A j \in Jobs :
        (printed[j] = PROCESSING /\ \A p \in Procs : j \notin Held(p))
            ~> (printed[j] = PENDING)

\* C7: a job that is Printed had its email accepted by the relay in the
\* processing run that ended with finalize.
C7_PrintedImpliesDelivered ==
    \A j \in Jobs : printed[j] = PRINTED => run[j] = "sent"

\* A job is Printed.
C7_Witness == \E j \in Jobs : printed[j] = PRINTED /\ run[j] = "sent"

\* C8: a run in which the email was delivered never ends with the job put
\* back to Pending.
C8_NotifiedRunEndsPrinted ==
    \A j \in Jobs : run[j] = "sent" => printed[j] # PENDING

\* C9: once the future of a run that failed at or before the email has
\* left the as_completed loop, the job is Pending.
C9_FailedRunEndsPending ==
    \A j \in Jobs :
        (run[j] = "failed" /\ \A p \in Procs : j \notin futures[p])
            => printed[j] = PENDING

\* C10: whatever the printer lookup and the dispatch came to, the worker
\* goes on to cleanup and returns normally: after the email no stage ends
\* in an exception, and the run stays a delivered one.
C10_PrintingBestEffort ==
    /\ [](\A p \in Procs, j \in Jobs :
            stage[p][j] \in PrintedStages \cup {"notified", "ok"} => run[j] = "sent")
    /\ [][\A p \in Procs, j \in Jobs :
            /\ stage[p][j] = "notified" =>
                  stage'[p][j] \in PrintedStages \cup {"notified"}
            /\ stage[p][j] \in PrintedStages =>
                  stage'[p][j] \in {stage[p][j], "ok"}]_vars

\* One worker is past a failed dispatch and another past a lookup that
\* found no printer, both on their way to cleanup.
C10_Witness ==
    \E p, q \in Procs, i, j \in Jobs :
        stage[p][i] = "print_error" /\ stage[q][j] = "print_skipped"

\* C11: a claim, finalize or revert that fails on the store leaves the loop
\* running and is tried again: a failed claim leaves the process at the top
\* of the loop, and a finished run whose finalize or revert has not gone
\* through is still among the futures the loop is going to handle, so the
\* same operation is issued again on the same job id.
C11_FailedOperationRetried ==
    \A p \in Procs :
        /\ pc[p] \in {"poll", "claiming", "collect"}
        /\ \A j \in Jobs : stage[p][j] \in DoneStages => j \in futures[p]

\* C12: a process never has more than the pool size of jobs claimed and not
\* yet finalized or reverted, and it issues a claim only when every job of
\* its previous batch has been dealt with.
C12_NeverOverClaims ==
    \A p \in Procs :
        /\ Cardinality(txRows[p]) <= MaxWorkers
        /\ Cardinality(Held(p) \cup txRows[p]) <= MaxWorkers
        /\ pc[p] = "claiming" => Held(p) = {}

(* ------------------ send_email_with_attachment on its own ------------- *)
\* Longest recipient list tried.
MaxList == 2
\* Largest max_retries tried; the only call (process_and_print_invoice)
\* leaves the default of 3, and no caller passes less than 1.
MaxRetriesTried == 3

\* Addresses tried; EMAIL_REGEX matches the first only (and the other
\* well-formed addresses used further down).
Addrs == {"a@x.com", "no-at-sign", ""}
EmailRegexMatch(e) == e \in {"a@x.com", "A@x.com", "b@x.com"}

SeqsUpTo(S, n) == UNION {[1..k -> S] : k \in 0..n}

DEFAULT_TO == <<>>
DEFAULT_CC_ALWAYS == <<"">>

\* 6) Email routing: the supplier's To list, or the default one.
FinalTo(to_supplier) == IF to_supplier # <<>> THEN to_supplier ELSE DEFAULT_TO

\* to_list / cc_list: the addresses the pattern matches, in order.
ValidOnly(emails) == SelectSeq(emails, EmailRegexMatch)

\* A call with its arguments and with what the environment will do: smtp[i]
\* tells whether the i-th SMTP session goes through, attachOk whether the
\* attachment can be read.
MailCalled ==
    \E to_supplier \in SeqsUpTo(Addrs, MaxList),
       cc \in {<<>>, DEFAULT_CC_ALWAYS, <<"a@x.com">>},
       mr \in 1..MaxRetriesTried,
       f \in [1..MaxRetriesTried -> BOOLEAN],
       a \in BOOLEAN :
       mail = [st |-> "called", receiver_emails |-> FinalTo(to_supplier),
               cc_emails |-> cc, max_retries |-> mr, smtp |-> f,
               attachOk |-> a, to_list |-> <<>>, recipients |-> <<>>,
               attempt |-> 0, error |-> "none"]

MailInit ==
    /\ MailCalled
    /\ printed = [j \in Jobs |-> PENDING]
    /\ status = [j \in Jobs |-> ELIGIBLE]
    /\ Idle
    /\ call = NoCall
    /\ pcache = NotInUse /\ money = NotInUse /\ qr = NotInUse /\ disp = NotInUse
    /\ AuxIdle

MailFrame == UNCHANGED <<printed, status, pc, txRows, futures, stage, run, call,
                         pcache, money, qr, disp, aux>>

\* Lines 509-513: filter both lists; no valid To address raises ValueError.
MailValidate ==
    /\ mail.st = "called"
    /\ LET tl == ValidOnly(mail.receiver_emails) IN
          mail' = IF tl = <<>>
                  THEN [mail EXCEPT !.st = "raised", !.error = "ValueError"]
                  ELSE [mail EXCEPT !.st = "validated", !.to_list = tl]
    /\ MailFrame

\* Lines 515-530: build the message, read the attachment (open may raise).
MailAttach ==
    /\ mail.st = "validated"
    /\ mail' = IF mail.attachOk
               THEN [mail EXCEPT !.st = "sending",
                        !.recipients = mail.to_list \o ValidOnly(mail.cc_emails)]
               ELSE [mail EXCEPT !.st = "raised", !.error = "OSError"]
    /\ MailFrame

\* What one pass of the loop body comes to: return on success, re-raise on
\* the last attempt, sleep and go on otherwise.
AttemptResultNoRetry(ok, attempt, max_retries) ==
    IF ok THEN "returned" ELSE "raised"

AttemptResult(ok, attempt, max_retries) ==
    IF ok THEN "returned"
    ELSE IF attempt = max_retries THEN "raised" ELSE "sending"

\* Lines 532-544: one SMTP session (connect, starttls, login, sendmail).
MailAttempt ==
    /\ mail.st = "sending"
    /\ mail.attempt < mail.max_retries
    /\ LET n == mail.attempt + 1
           to == AttemptResult(mail.smtp[n], n, mail.max_retries)
       IN mail' = [mail EXCEPT !.attempt = n, !.st = to,
                      !.error = IF to = "raised" THEN "SMTP" ELSE "none"]
    /\ MailFrame

MailNext == MailValidate \/ MailAttach \/ MailAttempt

MailSpec == MailInit /\ [][MailNext]_vars

\* Index of the first SMTP session that goes through, 0 if none does
\* within max_retries.
FirstOk ==
    LET ok == {i \in 1..mail.max_retries : mail.smtp[i]}
    IN IF ok = {} THEN 0 ELSE CHOOSE i \in ok : \A k \in ok : i <= k

\* C13: when every SMTP attempt fails the call makes exactly max_retries
\* attempts and raises; when the first success is attempt k it makes exactly
\* k attempts and returns; no attempt follows a successful one.
C13_RetryBound ==
    /\ mail.attempt \in 0..mail.max_retries
    /\ \A i \in 1..(mail.attempt - 1) : ~mail.smtp[i]
    /\ mail.st = "returned" => FirstOk >= 1 /\ mail.attempt = FirstOk
    /\ (mail.st = "raised" /\ mail.error = "SMTP") =>
          FirstOk = 0 /\ mail.attempt = mail.max_retries
    /\ mail.st = "sending" => \A i \in 1..mail.attempt : ~mail.smtp[i]

\* Every attempt failed, three attempts made, the call raised.
C13_Witness ==
    /\ mail.st = "raised" /\ mail.error = "SMTP"
    /\ mail.max_retries = 3 /\ mail.attempt = 3

(* ------------- the email stage of one job, call by call --------------- *)
\* Process 1 has claimed job 1 and its worker has reached stage 6 (the
\* archive is written); the email call is about to be made.
JobMailInit ==
    /\ MailCalled
    /\ printed = [j \in Jobs |-> IF j = 1 THEN PROCESSING ELSE PENDING]
    /\ status = [j \in Jobs |-> ELIGIBLE]
    /\ pc = [p \in Procs |-> IF p = 1 THEN "collect" ELSE "poll"]
    /\ txRows = [p \in Procs |-> {}]
    /\ futures = [p \in Procs |-> IF p = 1 THEN {1} ELSE {}]
    /\ stage = [p \in Procs |->
          [j \in Jobs |-> IF p = 1 /\ j = 1 THEN "archived" ELSE "none"]]
    /\ run = [j \in Jobs |-> "none"]
    /\ call = NoCall
    /\ pcache = NotInUse /\ money = NotInUse /\ qr = NotInUse /\ disp = NotInUse
    /\ AuxIdle

\* How the call of send_email_with_attachment ended.
MailOutcome ==
    IF mail.st = "returned" THEN "sent"
    ELSE IF mail.error = "ValueError" THEN "no_recipient" ELSE "retries_exhausted"

\* Stage 6 with the call spelled out: the worker goes on when the call has
\* returned, and its future raises when the call has raised.
NotifyCall(p, j) ==
    /\ stage[p][j] = "archived"
    /\ mail.st \in {"returned", "raised"}
    /\ StageStep(p, j, EmailResult(MailOutcome), Delivery(MailOutcome))

JobMailNext ==
    \/ MailNext
    \/ \E p \in Procs, j \in Jobs : NotifyCall(p, j)
    \/ \E p \in Procs, j \in Jobs : Printing(p, j)
    \/ \E p \in Procs, j \in Jobs : Cleanup(p, j)
    \/ \E p \in Procs, j \in Jobs : Handle(p, j)

JobMailSpec == JobMailInit /\ [][JobMailNext]_vars

\* C14: when no address of the To list matches the pattern (the default list
\* included), the email call raises without any SMTP attempt, the run never
\* gets past the email stage, and the job is Pending once the loop has
\* handled the failed run.
C14_NoRecipientReverted ==
    ValidOnly(mail.receiver_emails) = <<>> =>
        /\ mail.attempt = 0
        /\ mail.st \in {"called", "raised"}
        /\ mail.st = "raised" => mail.error = "ValueError"
        /\ \A j \in Jobs : run[j] # "sent"
        /\ \A j \in Jobs :
              (run[j] = "failed" /\ \A p \in Procs : j \notin futures[p])
                  => printed[j] = PENDING

(* -------------------- find_printer_ip_cached on its own --------------- *)
\* Last reading of time.time() in the model.
MaxClock == 4
\* ttl_sec. PRINTER_CACHE_TTL_SEC is 30 * 60 in the source (print.py:57);
\* the model scales it so that an entry expires before MaxClock.
TtlSec == 2

\* njesia values tried: two unit numbers, an excluded one, one out of
\* range, one that int() rejects.
RoutingKeys == {"7", "9", "200", "300", "x"}
\* Whether int(njesia) returns (it raises ValueError otherwise), and what.
KeyIsInt(k) == k \in {"7", "9", "200", "300"}
KeyInt(k) ==
    CASE k = "7" -> 7 [] k = "9" -> 9 [] k = "200" -> 200 [] k = "300" -> 300
\* Variant: 200 and 201 are scanned like any other unit.
ScannableNoExclusion(k) ==
    IF ~KeyIsInt(k) THEN FALSE
    ELSE KeyInt(k) >= 0 /\ KeyInt(k) <= 254

\* Neither non-numeric, nor 200/201, nor outside 0..254.
Scannable(k) ==
    IF ~KeyIsInt(k) THEN FALSE
    ELSE /\ KeyInt(k) \notin {200, 201}
         /\ KeyInt(k) >= 0 /\ KeyInt(k) <= 254
\* Hosts 192.168.n.i that may accept a connection on the printer port
\* (1..254 in the source).
Hosts == {1, 2}
\* Worker threads calling the resolver.
Threads == {1, 2}

NoEntry == [ip |-> 0, expiry |-> 0]
NoLast == [op |-> "none", key |-> "", ret |-> 0]

\* `cached and cached[1] > now`
CacheHitNoExpiry(entry, now) == entry # NoEntry

CacheHit(entry, now) == entry # NoEntry /\ entry.expiry > now

PcacheInit ==
    /\ pcache = [now |-> 0,
                 cache |-> [k \in RoutingKeys |-> NoEntry],
                 scan |-> [t \in Threads |-> [key |-> "", now |-> 0]],
                 last |-> NoLast]
    /\ printed = [j \in Jobs |-> PENDING]
    /\ status = [j \in Jobs |-> ELIGIBLE]
    /\ Idle
    /\ call = NoCall
    /\ mail = NotInUse /\ money = NotInUse /\ qr = NotInUse /\ disp = NotInUse
    /\ AuxIdle

PcacheFrame == UNCHANGED <<printed, status, pc, txRows, futures, stage, run, call,
                           mail, money, qr, disp, aux>>

\* The wall clock advances.
Tick ==
    /\ pcache.now < MaxClock
    /\ pcache' = [pcache EXCEPT !.now = @ + 1]
    /\ PcacheFrame

\* Lines 441-444: the call reads the clock and the cache and returns the
\* cached IP of a live entry.
ResolveHit(t, k) ==
    /\ pcache.scan[t].key = ""
    /\ CacheHit(pcache.cache[k], pcache.now)
    /\ pcache' = [pcache EXCEPT
          !.last = [op |-> "hit", key |-> k, ret |-> pcache.cache[k].ip]]
    /\ PcacheFrame

\* Lines 446-453: no live entry and a key that is not scanned: None.
ResolveInvalid(t, k) ==
    /\ pcache.scan[t].key = ""
    /\ ~CacheHit(pcache.cache[k], pcache.now)
    /\ ~Scannable(k)
    /\ pcache' = [pcache EXCEPT !.last = [op |-> "invalid", key |-> k, ret |-> 0]]
    /\ PcacheFrame

\* Lines 455-460: no live entry: the probes of the subnet are submitted.
ScanStart(t, k) ==
    /\ pcache.scan[t].key = ""
    /\ ~CacheHit(pcache.cache[k], pcache.now)
    /\ Scannable(k)
    /\ pcache' = [pcache EXCEPT
          !.scan[t] = [key |-> k, now |-> pcache.now],
          !.last = [op |-> "scan_start", key |-> k, ret |-> 0]]
    /\ PcacheFrame

\* Lines 461-465: the first probe to report success is stored with expiry
\* `now + ttl_sec`, `now` being the clock read at the start of the call.
ScanFound(t) ==
    /\ pcache.scan[t].key # ""
    /\ \E h \in Hosts :
          LET k == pcache.scan[t].key IN
          pcache' = [pcache EXCEPT
              !.cache[k] = [ip |-> h, expiry |-> pcache.scan[t].now + TtlSec],
              !.scan[t] = [key |-> "", now |-> 0],
              !.last = [op |-> "scan_found", key |-> k, ret |-> h]]
    /\ PcacheFrame

\* Lines 467-468: no probe succeeded; the cache is left as it is.
ScanNone(t) ==
    /\ pcache.scan[t].key # ""
    /\ pcache' = [pcache EXCEPT
          !.scan[t] = [key |-> "", now |-> 0],
          !.last = [op |-> "scan_none", key |-> pcache.scan[t].key, ret |-> 0]]
    /\ PcacheFrame

PcacheNext ==
    \/ Tick
    \/ \E t \in Threads, k \in RoutingKeys : ResolveHit(t, k)
    \/ \E t \in Threads, k \in RoutingKeys : ResolveInvalid(t, k)
    \/ \E t \in Threads, k \in RoutingKeys : ScanStart(t, k)
    \/ \E t \in Threads : ScanFound(t)
    \/ \E t \in Threads : ScanNone(t)

PcacheSpec == PcacheInit /\ [][PcacheNext]_vars

\* A step in which a call of find_printer_ip_cached begins.
ResolveBegins ==
    /\ pcache'.now = pcache.now
    /\ pcache' # pcache
    /\ pcache'.last.op \in {"hit", "invalid", "scan_start"}

\* C15: a resolve of a key whose cache entry has not expired returns the
\* cached IP and starts no probe and leaves the entry alone; a resolve of a
\* key whose entry has expired starts a fresh scan.
C15_CacheTtl ==
    [][ResolveBegins =>
          LET k == pcache'.last.key
              e == pcache.cache[k]
          IN /\ (e # NoEntry /\ pcache.now < e.expiry) =>
                    /\ pcache'.last.op = "hit"
                    /\ pcache'.last.ret = e.ip
                    /\ pcache'.scan = pcache.scan
                    /\ pcache'.cache = pcache.cache
             /\ (e # NoEntry /\ pcache.now > e.expiry) =>
                    pcache'.last.op = "scan_start"]_vars

\* A resolve of "7" has just been served from its live entry while a scan
\* of "9", begun after the entry of "9" had expired, is under way.
C15_Witness ==
    /\ pcache.last = [op |-> "hit", key |-> "7", ret |-> pcache.cache["7"].ip]
    /\ pcache.now < pcache.cache["7"].expiry
    /\ pcache.cache["9"] # NoEntry
    /\ \E t \in Threads :
          /\ pcache.scan[t].key = "9"
          /\ pcache.scan[t].now > pcache.cache["9"].expiry

(* --------- get_invoice_products and map_data_for_template: money ------ *)
\* Most lines of an invoice tried.
MaxLines == 2

\* A Decimal is its value m * 10^-e. The model keeps coefficients short by
\* dropping trailing zeros after a product (the value is the same; the
\* exponent a Decimal shows only matters once it is quantized, and there it
\* is fixed). The context precision of 28 digits is never reached by the
\* values tried.
RECURSIVE Pow10(_)
Pow10(n) == IF n = 0 THEN 1 ELSE 10 * Pow10(n - 1)

Dec(m, e) == [m |-> m, e |-> e]

RECURSIVE Norm(_)
Norm(a) ==
    IF a.m = 0 THEN Dec(0, 0)
    ELSE IF a.e > 0 /\ a.m % 10 = 0 THEN Norm(Dec(a.m \div 10, a.e - 1))
    ELSE a

Max(a, b) == IF a > b THEN a ELSE b
\* Coefficient of a at exponent e >= a.e.
AtExp(a, e) == a.m * Pow10(e - a.e)

DecMul(a, b) == Norm(Dec(a.m * b.m, a.e + b.e))
DecAdd(a, b) == LET e == Max(a.e, b.e) IN Dec(AtExp(a, e) + AtExp(b, e), e)
DecSub(a, b) == LET e == Max(a.e, b.e) IN Dec(AtExp(a, e) - AtExp(b, e), e)
\* x / D(100)
DecDiv100(a) == Norm(Dec(a.m, a.e + 2))
DecEq(a, b) == LET e == Max(a.e, b.e) IN AtExp(a, e) = AtExp(b, e)

\* x.quantize(Decimal(10) ** -d, rounding=ROUND_HALF_UP): exponent d, a
\* tie goes away from zero.
Quantize(a, d) ==
    IF a.e <= d THEN Dec(AtExp(a, d), d)
    ELSE LET p == Pow10(a.e - d)
             abs == IF a.m < 0 THEN -a.m ELSE a.m
             q == abs \div p
             r == abs % p
             up == IF 2 * r >= p THEN q + 1 ELSE q
         IN Dec(IF a.m < 0 THEN -up ELSE up, d)
q2(x) == Quantize(x, 2)
q4(x) == Quantize(x, 4)

\* f"{q4(x):.4f}" and D(...) of that string: the string shows the quantized
\* coefficient with exactly d fractional digits, and Decimal(str) reads the
\* same coefficient and exponent back.
Fmt(x, d) == Dec(AtExp(x, d), d)
D(str) == Dec(str.m, str.e)

RECURSIVE DecSum(_)
\* sum(...) of a non-empty sequence of Decimals.
DecSum(ds) ==
    IF Len(ds) = 1 THEN ds[1] ELSE DecAdd(DecSum(SubSeq(ds, 1, Len(ds) - 1)), ds[Len(ds)])

\* Rows of Kthimi_ProduktTransfers tried: Sasia 3, 0.45, 0.005;
\* CmimiDokument 10.00, 1.0001; Zbritje 0, 10; TaxRate 0, 20.
ProductRows ==
    [Sasia : {Dec(3, 0), Dec(45, 2), Dec(5, 3)},
     CmimiDokument : {Dec(1000, 2), Dec(10001, 4)},
     Zbritje : {Dec(0, 0), Dec(10, 0)},
     TaxRate : {Dec(0, 0), Dec(20, 0)}]

\* The loop body variant that rounds the net line total before the tax.
ComputeLineRoundedNet(row) ==
    LET discount_amount == DecMul(row.CmimiDokument, DecDiv100(row.Zbritje))
        price_after_discount == DecSub(row.CmimiDokument, discount_amount)
        line_total == DecMul(row.Sasia, price_after_discount)
        tax_amount == DecMul(q4(line_total), DecDiv100(row.TaxRate))
        grand_total == DecAdd(line_total, tax_amount)
    IN [row |-> row,
        discount_amount |-> discount_amount,
        price_after_discount |-> price_after_discount,
        line_total |-> line_total,
        tax_amount |-> tax_amount,
        grand_total |-> grand_total,
        item |-> [Sasia |-> Fmt(q2(row.Sasia), 2),
                  CmimiDokument |-> Fmt(q4(row.CmimiDokument), 4),
                  TaxRate |-> Fmt(q2(row.TaxRate), 2),
                  Zbritje |-> Fmt(q2(row.Zbritje), 2),
                  tax_amount |-> Fmt(q4(tax_amount), 4),
                  line_total |-> Fmt(q4(grand_total), 4)]]

\* Body of the loop of get_invoice_products: the locals of one pass and the
\* item it appends (the item's "line_total" is the gross of the line).
ComputeLine(row) ==
    LET discount_amount == DecMul(row.CmimiDokument, DecDiv100(row.Zbritje))
        price_after_discount == DecSub(row.CmimiDokument, discount_amount)
        line_total == DecMul(row.Sasia, price_after_discount)
        tax_amount == DecMul(line_total, DecDiv100(row.TaxRate))
        grand_total == DecAdd(line_total, tax_amount)
    IN [row |-> row,
        discount_amount |-> discount_amount,
        price_after_discount |-> price_after_discount,
        line_total |-> line_total,
        tax_amount |-> tax_amount,
        grand_total |-> grand_total,
        item |-> [Sasia |-> Fmt(q2(row.Sasia), 2),
                  CmimiDokument |-> Fmt(q4(row.CmimiDokument), 4),
                  TaxRate |-> Fmt(q2(row.TaxRate), 2),
                  Zbritje |-> Fmt(q2(row.Zbritje), 2),
                  tax_amount |-> Fmt(q4(tax_amount), 4),
                  line_total |-> Fmt(q4(grand_total), 4)]]

\* The sum taken over the quantities as read, rounded once at the end.
TotalQuantityUnrounded(lines) ==
    q2(DecSum([i \in 1..Len(lines) |-> lines[i].row.Sasia]))

\* sum(D(i["Sasia"]) for i in items), output through q2.
TotalQuantity(lines) ==
    q2(DecSum([i \in 1..Len(lines) |-> D(lines[i].item.Sasia)]))

\* sum(D(i["line_total"]) - D(i["tax_amount"]) for i in items)
SubtotalRaw(lines) ==
    DecSum([i \in 1..Len(lines) |->
               DecSub(D(lines[i].item.line_total), D(lines[i].item.tax_amount))])
\* sum(D(i["tax_amount"]) for i in items)
TotalTaxRaw(lines) ==
    DecSum([i \in 1..Len(lines) |-> D(lines[i].item.tax_amount)])

\* The totals taken over the unrounded locals of the lines, each rounded
\* once at the end.
TotalsOfUnroundedLines(lines) ==
    [total_quantity |-> Fmt(TotalQuantity(lines), 2),
     subtotal |-> Fmt(q4(DecSum([i \in 1..Len(lines) |-> lines[i].line_total])), 4),
     total_tax |-> Fmt(q4(DecSum([i \in 1..Len(lines) |-> lines[i].tax_amount])), 4),
     grand_total |-> Fmt(q4(DecSum([i \in 1..Len(lines) |-> lines[i].grand_total])), 4)]

\* The four totals of map_data_for_template as they are output.
Totals(lines) ==
    [total_quantity |-> Fmt(TotalQuantity(lines), 2),
     subtotal |-> Fmt(q4(SubtotalRaw(lines)), 4),
     total_tax |-> Fmt(q4(TotalTaxRaw(lines)), 4),
     grand_total |-> Fmt(q4(DecAdd(SubtotalRaw(lines), TotalTaxRaw(lines))), 4)]

NoTotals == [total_quantity |-> Dec(0, 2), subtotal |-> Dec(0, 4),
             total_tax |-> Dec(0, 4), grand_total |-> Dec(0, 4)]

MoneyInit ==
    /\ \E rows \in SeqsUpTo(ProductRows, MaxLines) :
          money = [st |-> "rows", rows |-> rows, lines |-> <<>>, totals |-> NoTotals]
    /\ printed = [j \in Jobs |-> PENDING]
    /\ status = [j \in Jobs |-> ELIGIBLE]
    /\ Idle
    /\ call = NoCall
    /\ mail = NotInUse /\ pcache = NotInUse /\ qr = NotInUse /\ disp = NotInUse
    /\ AuxIdle

MoneyFrame == UNCHANGED <<printed, status, pc, txRows, futures, stage, run, call,
                          mail, pcache, qr, disp, aux>>

\* get_invoice_products: one item per row.
GetInvoiceProducts ==
    /\ money.st = "rows"
    /\ money' = [money EXCEPT !.st = "items",
          !.lines = [i \in 1..Len(money.rows) |-> ComputeLine(money.rows[i])]]
    /\ MoneyFrame

\* map_data_for_template over at least one item.
MapDataForTemplate ==
    /\ money.st = "items"
    /\ money.lines # <<>>
    /\ money' = [money EXCEPT !.st = "mapped", !.totals = Totals(money.lines)]
    /\ MoneyFrame

\* map_data_for_template over no item: sum() of nothing is the int 0, and
\* q2(0) raises AttributeError.
MapDataNoItems ==
    /\ money.st = "items"
    /\ money.lines = <<>>
    /\ money' = [money EXCEPT !.st = "raised"]
    /\ MoneyFrame

MoneyNext == GetInvoiceProducts \/ MapDataForTemplate \/ MapDataNoItems

MoneySpec == MoneyInit /\ [][MoneyNext]_vars

\* C16: for a non-empty sequence of lines the three totals as output
\* satisfy grand_total = subtotal + total_tax at 4 fractional digits.
C16_GrandTotalIsSum ==
    money.st = "mapped" =>
        /\ money.totals.grand_total.e = 4
        /\ money.totals.subtotal.e = 4
        /\ money.totals.total_tax.e = 4
        /\ money.totals.grand_total.m =
              money.totals.subtotal.m + money.totals.total_tax.m

\* Two lines, one of them with more than 4 fractional digits in its net,
\* tax and gross (0.45 x 1.0001 at 20 %), have been totalled.
C16_Witness ==
    /\ money.st = "mapped"
    /\ Len(money.lines) = 2
    /\ \E i \in 1..2 : money.lines[i].tax_amount.e > 4
    /\ money.totals.total_tax.m > 0

RoundedNet(l) == q4(l.line_total)
RoundedTax(l) == q4(l.tax_amount)
RoundedGross(l) == q4(l.grand_total)
RoundedGrossLessTax(l) == DecSub(q4(l.grand_total), q4(l.tax_amount))
RoundedQty(l) == q2(l.row.Sasia)

\* Sums over the lines of the invoice of the rounded per-line values.
SumRoundedNet ==
    DecSum([i \in 1..Len(money.lines) |-> RoundedNet(money.lines[i])])
SumRoundedTax ==
    DecSum([i \in 1..Len(money.lines) |-> RoundedTax(money.lines[i])])
SumRoundedGross ==
    DecSum([i \in 1..Len(money.lines) |-> RoundedGross(money.lines[i])])
SumRoundedGrossLessTax ==
    DecSum([i \in 1..Len(money.lines) |-> RoundedGrossLessTax(money.lines[i])])
SumRoundedQty ==
    DecSum([i \in 1..Len(money.lines) |-> RoundedQty(money.lines[i])])

\* C17 as stated: each total is the sum of the rounded per-line values,
\* subtotal being the sum of the lines' net rounded to 4 digits, total_tax
\* of the rounded tax, grand_total of the rounded gross, total_quantity of
\* the quantities rounded to 2 digits.
C17_TotalsSumRoundedLines ==
    money.st = "mapped" =>
        /\ money.totals.subtotal = SumRoundedNet
        /\ money.totals.total_tax = SumRoundedTax
        /\ money.totals.grand_total = SumRoundedGross
        /\ money.totals.total_quantity = SumRoundedQty

\* C17 amended: each total is a sum of rounded per-line outputs, subtotal
\* being the sum over the lines of (gross rounded to 4 digits minus tax
\* rounded to 4 digits); total_tax, grand_total and total_quantity as
\* stated.
C17_TotalsSumRoundedOutputs ==
    money.st = "mapped" =>
        /\ money.totals.subtotal = SumRoundedGrossLessTax
        /\ money.totals.total_tax = SumRoundedTax
        /\ money.totals.grand_total = SumRoundedGross
        /\ money.totals.total_quantity = SumRoundedQty

\* Totals of two lines whose subtotal is not the sum of the rounded nets.
C17_Witness ==
    /\ money.st = "mapped"
    /\ Len(money.lines) = 2
    /\ money.totals.subtotal # SumRoundedNet
    /\ money.totals.subtotal = SumRoundedGrossLessTax

\* C18: for every line, discount = price x disc/100, net unit price =
\* price - discount, net = quantity x net unit price, tax = net x rate/100,
\* gross = net + tax, all on unrounded values; the item shows tax and gross
\* rounded half-up to 4 digits; {3, 10.00, 10 %, 20 %} gives net unit price
\* 9, net 27, tax 5.4000 and gross 32.4000.
C18_LineComputation ==
    money.st \in {"items", "mapped"} =>
        \A i \in 1..Len(money.lines) :
            LET l == money.lines[i]
                r == l.row
            IN /\ DecEq(DecMul(l.discount_amount, Dec(100, 0)),
                        DecMul(r.CmimiDokument, r.Zbritje))
               /\ DecEq(DecAdd(l.price_after_discount, l.discount_amount),
                        r.CmimiDokument)
               /\ DecEq(l.line_total, DecMul(r.Sasia, l.price_after_discount))
               /\ DecEq(DecMul(l.tax_amount, Dec(100, 0)),
                        DecMul(l.line_total, r.TaxRate))
               /\ DecEq(l.grand_total, DecAdd(l.line_total, l.tax_amount))
               /\ l.item.tax_amount = q4(l.tax_amount)
               /\ l.item.line_total = q4(l.grand_total)
               /\ r = [Sasia |-> Dec(3, 0), CmimiDokument |-> Dec(1000, 2),
                       Zbritje |-> Dec(10, 0), TaxRate |-> Dec(20, 0)] =>
                     /\ DecEq(l.price_after_discount, Dec(900, 2))
                     /\ DecEq(l.line_total, Dec(2700, 2))
                     /\ l.item.tax_amount = Dec(54000, 4)
                     /\ l.item.line_total = Dec(324000, 4)

\* The line {3, 10.00, 10 %, 20 %} has been computed, next to a line whose
\* net has more than 4 fractional digits.
C18_Witness ==
    /\ money.st = "items"
    /\ Len(money.lines) = 2
    /\ money.lines[1].row = [Sasia |-> Dec(3, 0), CmimiDokument |-> Dec(1000, 2),
                              Zbritje |-> Dec(10, 0), TaxRate |-> Dec(20, 0)]
    /\ money.lines[1].item.line_total = Dec(324000, 4)
    /\ money.lines[2].line_total.e > 4

(* ------------- create_encrypted_qr: the artifact image path ----------- *)
\* A string is the sequence of its characters.
Lower == {"a", "b", "c", "d", "e", "f", "g", "h", "i", "j", "k", "l", "m",
          "n", "o", "p", "q", "r", "s", "t", "u", "v", "w", "x", "y", "z"}
Upper == {"A", "B", "C", "D", "E", "F", "G", "H", "I", "J", "K", "L", "M",
          "N", "O", "P", "Q", "R", "S", "T", "U", "V", "W", "X", "Y", "Z"}
Digits == {"0", "1", "2", "3", "4", "5", "6", "7", "8", "9"}
\* The class [A-Za-z0-9\-_.] of sanitize_filename_component.
FilenameChars == Lower \cup Upper \cup Digits \cup {"-", "_", "."}

\* re.sub(r"[^A-Za-z0-9\-_.]", "_", str(component))
SanitizeFilenameComponent(component) ==
    [i \in 1..Len(component) |->
        IF component[i] \in FilenameChars THEN component[i] ELSE "_"]

UnknownInvoice == <<"u", "n", "k", "n", "o", "w", "n", "_", "i", "n", "v", "o", "i", "c", "e">>
UnknownDate == <<"u", "n", "k", "n", "o", "w", "n", "_", "d", "a", "t", "e">>
DotPng == <<".", "p", "n", "g">>

\* Headers tried: unit code, invoice number, date as str() shows them.
Headers ==
    [njesia : {<<"7">>, <<"9">>},
     invoice_number : {<<"1">>, <<"2">>},
     invoice_date : {<<"1", "/", "2">>, <<"1", "-", "2">>, <<"1", " ", "2">>}]

\* dict.get(key, default)
DictGet(d, key, default) == IF key \in DOMAIN d THEN d[key] ELSE default

\* 2) Prepare QR payloads: the dict handed to create_encrypted_qr (the
\* totals are left out of the model: they play no part in the path).
QrDataMinified(data) ==
    [inv |-> data.invoice_number, dt |-> data.invoice_date, n |-> data.njesia]

\* qr_filename of create_encrypted_qr(data, ...).
QrFilename(data) ==
    LET invoice_number == DictGet(data, "invoice_number", UnknownInvoice)
        njesia == DictGet(data, "njesia", UnknownInvoice)
        invoice_date == DictGet(data, "invoice_date", UnknownDate)
    IN SanitizeFilenameComponent(njesia) \o <<"_">>
         \o SanitizeFilenameComponent(invoice_number) \o <<"_">>
         \o SanitizeFilenameComponent(invoice_date) \o DotPng

\* The sanitized (unit code, invoice number, date) of a header.
SanitizedTriple(data) ==
    <<SanitizeFilenameComponent(data.njesia),
      SanitizeFilenameComponent(data.invoice_number),
      SanitizeFilenameComponent(data.invoice_date)>>

\* Two jobs with their headers; no image written yet.
QrInit ==
    /\ \E h \in [1..2 -> Headers] :
          qr = [data |-> h, path |-> [i \in 1..2 |-> <<>>]]
    /\ printed = [j \in Jobs |-> PENDING]
    /\ status = [j \in Jobs |-> ELIGIBLE]
    /\ Idle
    /\ call = NoCall
    /\ mail = NotInUse /\ pcache = NotInUse /\ money = NotInUse /\ disp = NotInUse
    /\ AuxIdle

\* Stage 2 of job i: qr_path = create_encrypted_qr(qr_data_minified, ...).
CreateEncryptedQr(i) ==
    /\ qr.path[i] = <<>>
    /\ qr' = [qr EXCEPT !.path[i] = QrFilename(QrDataMinified(qr.data[i]))]
    /\ UNCHANGED <<printed, status, pc, txRows, futures, stage, run, call,
                   mail, pcache, money, disp, aux>>

QrNext == \E i \in 1..2 : CreateEncryptedQr(i)

QrSpec == QrInit /\ [][QrNext]_vars

\* C19: the image path of a job is a function of its header, contains only
\* characters of [A-Za-z0-9-_.], and two jobs whose sanitized (unit code,
\* invoice number, date) differ get different image paths.
C19_ImagePathPerInvoice ==
    (qr.path[1] # <<>> /\ qr.path[2] # <<>>) =>
        /\ \A i \in 1..2 : \A k \in 1..Len(qr.path[i]) : qr.path[i][k] \in FilenameChars
        /\ qr.data[1] = qr.data[2] => qr.path[1] = qr.path[2]
        /\ SanitizedTriple(qr.data[1]) # SanitizedTriple(qr.data[2]) =>
              qr.path[1] # qr.path[2]

(* ---------------------- send_raw_to_printer on its own ---------------- *)
\* Largest copies argument tried (the pipeline passes 2, the default is 1).
MaxCopies == 2
\* Longest file tried, in chunks of chunk_size bytes.
MaxChunks == 2

\* The file as the sequence of its chunks.
FileChunks(n) == [i \in 1..n |-> i]

RECURSIVE Repeat(_, _)
\* s repeated n times.
Repeat(s, n) == IF n = 0 THEN <<>> ELSE Repeat(s, n - 1) \o s

\* The loop variant that streams the file once whatever copies is.
PassesOnce(copies) == 1

\* range(max(1, copies))
Passes(copies) == Max(1, copies)

\* A call with its arguments and with what the network will do: connectOk
\* tells whether create_connection succeeds, failAt which sendall raises
\* (0: none).
DispInit ==
    /\ \E c \in 0..MaxCopies, n \in 0..MaxChunks, ok \in BOOLEAN,
          f \in 0..(MaxCopies * MaxChunks) :
          disp = [st |-> "called", copies |-> c, chunks |-> n, connectOk |-> ok,
                  failAt |-> f, conns |-> 0, pass |-> 0, pos |-> 0, sent |-> <<>>]
    /\ printed = [j \in Jobs |-> PENDING]
    /\ status = [j \in Jobs |-> ELIGIBLE]
    /\ Idle
    /\ call = NoCall
    /\ mail = NotInUse /\ pcache = NotInUse /\ money = NotInUse /\ qr = NotInUse
    /\ AuxIdle

DispFrame == UNCHANGED <<printed, status, pc, txRows, futures, stage, run, call,
                         mail, pcache, money, qr, aux>>

\* socket.create_connection, once, before the loop over the copies; a
\* failure is logged by the except clause.
DispConnect ==
    /\ disp.st = "called"
    /\ disp' = IF disp.connectOk
               THEN [disp EXCEPT !.st = "connected", !.conns = 1, !.pass = 1]
               ELSE [disp EXCEPT !.st = "error"]
    /\ DispFrame

\* file.read(chunk_size) returns a chunk; printer_socket.sendall(chunk).
DispSendChunk ==
    /\ disp.st = "connected"
    /\ disp.pos < disp.chunks
    /\ disp' = IF disp.failAt = Len(disp.sent) + 1
               THEN [disp EXCEPT !.st = "error"]
               ELSE [disp EXCEPT !.pos = @ + 1, !.sent = Append(@, disp.pos + 1)]
    /\ DispFrame

\* file.read returns b"": the file is closed; the next pass reopens it on
\* the same socket, and after the last pass the socket is closed.
DispEndOfFile ==
    /\ disp.st = "connected"
    /\ disp.pos = disp.chunks
    /\ disp' = IF disp.pass < Passes(disp.copies)
               THEN [disp EXCEPT !.pass = @ + 1, !.pos = 0]
               ELSE [disp EXCEPT !.st = "done"]
    /\ DispFrame

DispNext == DispConnect \/ DispSendChunk \/ DispEndOfFile

DispSpec == DispInit /\ [][DispNext]_vars

ArtifactStages == {"encrypted", "rendered", "archived", "notified"}

\* C21: every run that created an artifact image ends only through the
\* cleanup step: the step that ends it (the worker returning or raising)
\* is the cleanup of step 8, whatever the email step did, and a failing
\* cleanup still lets the run end normally.
C21_CleanupUnconditional ==
    [][\A p \in Procs, j \in Jobs :
          (/\ stage[p][j] \in ArtifactStages \cup PrintedStages
           /\ stage'[p][j] \in DoneStages)
          => (/\ stage[p][j] \in PrintedStages
              /\ stage'[p][j] = "ok")]_vars

\* Position of a stage in process_and_print_invoice: steps 1, 2, 3, 4, 6, 7
\* and 8 of the function, then its return.
StageRank(s) ==
    CASE s = "none" -> 0
      [] s = "claimed" -> 1
      [] s = "assembled" -> 2
      [] s = "encrypted" -> 3
      [] s = "rendered" -> 4
      [] s = "archived" -> 5
      [] s = "notified" -> 6
      [] s \in PrintedStages -> 7
      [] s = "ok" -> 8
      [] OTHER -> 9

\* C23: within one job the stages follow one another in the order
\* Assembled, Encrypted, Rendered (and archived), Notified, print attempt,
\* CleanedUp, Finalized: a worker enters a stage only from the one before
\* it, it enters Notified only by a delivered email after rendering and
\* archiving succeeded, it attempts printing only out of Notified, and a
\* job becomes Printed only by a worker that has returned from cleanup.
C23_StageOrder ==
    [][/\ stage' # stage =>
             \A p \in Procs, j \in Jobs :
                /\ (stage'[p][j] # stage[p][j] /\ stage'[p][j] \notin {"none", "exc"})
                      => StageRank(stage'[p][j]) = StageRank(stage[p][j]) + 1
                /\ (stage'[p][j] = "notified" /\ stage[p][j] # "notified")
                      => (stage[p][j] = "archived" /\ run'[j] = "sent")
                /\ (stage'[p][j] \in PrintedStages /\ stage[p][j] \notin PrintedStages)
                      => stage[p][j] = "notified"
                /\ (stage'[p][j] = "ok" /\ stage[p][j] # "ok")
                      => stage[p][j] \in PrintedStages
       /\ printed' # printed =>
             \A j \in Jobs :
                (printed'[j] = PRINTED /\ printed[j] # PRINTED)
                   => \E p \in Procs : stage[p][j] = "ok" /\ stage'[p][j] = "none"]_vars

\* One job went through every stage and is Printed while the worker of
\* another job has attempted to print and not yet cleaned up.
C23_Witness ==
    \E j, k \in Jobs, p \in Procs :
        /\ j # k
        /\ printed[j] = PRINTED /\ run[j] = "sent"
        /\ stage[p][k] = "print_error"

(* ------------------------ artifact encryption ------------------------- *)
\* create_encrypted_qr up to combined_payload, with the primitives of the
\* cryptography package as symbolic operations: a derived key is the tuple
\* of what it was derived from, a token cell names the key and IV it was
\* encrypted under, and the HMAC cell names the key and the cells it covers.
\* Byte strings are sequences of cells, every kind of cell a record of its
\* own shape.

\* Length of the salt (os.urandom(16)), scaled down.
SaltLen == 2

SaltBytes == {[byte |-> 0], [byte |-> 1]}

Salts == [1..SaltLen -> SaltBytes]

Ivs == {0, 1}

Passwords == {"pw1", "pw2"}

\* qr_data_minified, reduced to two of its keys.
MiniPayloads == [inv : {"1", "2"}, tot : {"0.00", "5.00"}]

\* json.dumps(data, separators=(",", ":")).encode("utf-8")
JsonDumps(d) == <<"{", "inv", ":", d.inv, ",", "tot", ":", d.tot, "}">>

\* json.loads of such bytes.
JsonLoads(b) ==
    IF /\ Len(b) = 9
       /\ <<b[1], b[2], b[3], b[5], b[6], b[7], b[9]>> =
              <<"{", "inv", ":", ",", "tot", ":", "}">>
    THEN [inv |-> b[4], tot |-> b[8]]
    ELSE [error |-> "JSONDecodeError"]

\* zlib.compress: a header, the deflated body and the checksum of the
\* uncompressed bytes.
ZlibCompress(b) ==
    <<[zlib |-> 120]>> \o [i \in 1..Len(b) |-> [deflated |-> b[i]]] \o <<[adler32 |-> b]>>

\* zlib.decompress
ZlibDecompress(z) ==
    IF \/ Len(z) < 2
       \/ z[1] # [zlib |-> 120]
       \/ \E i \in 2..(Len(z) - 1) : DOMAIN z[i] # {"deflated"}
    THEN <<"zlib.error">>
    ELSE LET body == [i \in 1..(Len(z) - 2) |-> z[i + 1].deflated]
         IN  IF z[Len(z)] = [adler32 |-> body] THEN body ELSE <<"zlib.error">>

\* Scrypt(salt, length=32, n=2**14, r=8, p=1).derive(password)
ScryptDerive(salt, password) ==
    [kdf |-> "scrypt", salt |-> salt, password |-> password,
     length |-> 32, n |-> 16384, r |-> 8, p |-> 1]

\* Fernet(base64.urlsafe_b64encode(key)).encrypt(data): version, IV,
\* ciphertext cells and the HMAC over all of them.
FernetCells(key, iv, data) ==
    <<[version |-> 128], [iv |-> iv]>>
        \o [i \in 1..Len(data) |-> [ct |-> data[i], key |-> key, iv |-> iv]]

FernetEncrypt(key, iv, data) ==
    LET cells == FernetCells(key, iv, data)
    IN  cells \o <<[hmac |-> key, over |-> cells]>>

\* Fernet(key).decrypt(token): the HMAC is verified under the given key,
\* then the cells are decrypted.
FernetDecrypt(key, token) ==
    IF Len(token) < 3 THEN [ok |-> FALSE, data |-> <<>>]
    ELSE LET cells == SubSeq(token, 1, Len(token) - 1)
         IN  IF token[Len(token)] # [hmac |-> key, over |-> cells]
             THEN [ok |-> FALSE, data |-> <<>>]
             ELSE [ok |-> TRUE,
                   data |-> [i \in 1..(Len(cells) - 2) |-> cells[i + 2].ct]]

\* base64.urlsafe_b64encode(b).decode("ascii")
B64Encode(b) == [i \in 1..Len(b) |-> [b64 |-> b[i]]]

\* base64.urlsafe_b64decode
B64Decode(t) == [i \in 1..Len(t) |-> t[i].b64]

\* The salt is left out of the payload.
CombinedPayloadNoSalt(salt, encrypted) == B64Encode(encrypted)

\* combined_payload = base64.urlsafe_b64encode(salt + encrypted)
CombinedPayload(salt, encrypted) == B64Encode(salt \o encrypted)

\* Decryption as the specification describes it: the salt is the first
\* SaltLen bytes of the decoded payload, the key is re-derived from it and
\* the password, the rest is decrypted, decompressed and parsed.
DecryptArtifact(payload, password) ==
    LET raw == B64Decode(payload)
        salt == SubSeq(raw, 1, SaltLen)
        token == SubSeq(raw, SaltLen + 1, Len(raw))
        decrypted == FernetDecrypt(ScryptDerive(salt, password), token)
    IN  IF ~decrypted.ok
        THEN [error |-> "InvalidToken"]
        ELSE [error |-> "none", compressed |-> decrypted.data,
              raw_json |-> ZlibDecompress(decrypted.data)]

Untried == [error |-> "untried"]

CryptInit ==
    /\ \E d \in MiniPayloads, pw \in Passwords :
          crypt = [st |-> "called", data |-> d, password |-> pw,
                   compressed |-> <<>>, combined_payload |-> <<>>,
                   result |-> [p \in Passwords |-> Untried]]
    /\ printed = [j \in Jobs |-> PENDING]
    /\ status = [j \in Jobs |-> ELIGIBLE]
    /\ Idle
    /\ call = NoCall
    /\ mail = NotInUse /\ pcache = NotInUse /\ money = NotInUse
    /\ qr = NotInUse /\ disp = NotInUse
    /\ fs = NotInUse /\ sched = NotInUse

CryptFrame == UNCHANGED <<printed, status, pc, txRows, futures, stage, run, call,
                          mail, pcache, money, qr, disp, fs, sched>>

\* create_encrypted_qr, lines 384-395; the salt and the IV are random.
CryptEncrypt ==
    /\ crypt.st = "called"
    /\ \E salt \in Salts, iv \in Ivs :
          LET compressed == ZlibCompress(JsonDumps(crypt.data))
              key == ScryptDerive(salt, crypt.password)
              encrypted == FernetEncrypt(key, iv, compressed)
          IN  crypt' = [crypt EXCEPT
                  !.st = "encrypted",
                  !.compressed = compressed,
                  !.combined_payload = CombinedPayload(salt, encrypted)]
    /\ CryptFrame

\* Somebody who scanned the image decrypts its payload with password pw.
CryptDecrypt(pw) ==
    /\ crypt.st = "encrypted"
    /\ crypt.result[pw] = Untried
    /\ crypt' = [crypt EXCEPT
          !.result[pw] = DecryptArtifact(crypt.combined_payload, pw)]
    /\ CryptFrame

CryptNext == CryptEncrypt \/ \E pw \in Passwords : CryptDecrypt(pw)

CryptSpec == CryptInit /\ [][CryptNext]_vars

\* C22: decrypting the payload of create_encrypted_qr with the salt it
\* embeds and the password it was encrypted under gives back the compressed
\* bytes, which decompress to the serialized payload (and parse to the
\* data); with any other password authentication fails.
C22_RoundTrip ==
    \A pw \in Passwords :
        crypt.result[pw] # Untried =>
            IF pw = crypt.password
            THEN /\ crypt.result[pw].error = "none"
                 /\ crypt.result[pw].compressed = crypt.compressed
                 /\ crypt.result[pw].raw_json = JsonDumps(crypt.data)
                 /\ JsonLoads(crypt.result[pw].raw_json) = crypt.data
            ELSE crypt.result[pw] = [error |-> "InvalidToken"]

\* A payload was decrypted with its password and with a wrong one.
C22_Witness ==
    /\ crypt.st = "encrypted"
    /\ crypt.password = "pw1"
    /\ crypt.result["pw1"].error = "none"
    /\ Len(crypt.result["pw1"].compressed) = 11
    /\ crypt.result["pw2"].error = "InvalidToken"

(* ------------------ two workers and the files they share -------------- *)
\* Two workers of one batch run process_and_print_invoice for two different
\* jobs. Every step that touches FATURA_template is one action; the stages
\* that touch no file (email, printing) succeed, so that a worker running
\* alone returns normally with its own artifact in its document.
FsWorkers == {1, 2}

DotPdf == <<".", "p", "d", "f">>
DotZip == <<".", "z", "i", "p">>
ZippedDir == <<"z", "i", "p", "p", "e", "d", "/">>
QrDir == <<"q", "r", "_", "c", "o", "d", "e", "s", "/">>

\* base_name = f"{sanitized_njesia}_{sanitized_inv}_{sanitized_date}"
BaseName(data) ==
    SanitizeFilenameComponent(data.njesia) \o <<"_">>
        \o SanitizeFilenameComponent(data.invoice_number) \o <<"_">>
        \o SanitizeFilenameComponent(data.invoice_date)

\* Paths below pdf_dir.
QrPath(data) == QrDir \o QrFilename(QrDataMinified(data))
PdfPath(data) == BaseName(data) \o DotPdf
ZipPath(data) == ZippedDir \o BaseName(data) \o DotZip

\* A file: what it is, the job it was written for, and the job whose
\* artifact (encrypted payload) it shows or contains; 0 is none.
Absent == [kind |-> "absent", job |-> 0, artifact |-> 0]

FsPaths(h) ==
    UNION {{QrPath(h[w]), PdfPath(h[w]), ZipPath(h[w])} : w \in FsWorkers}

\* Two jobs are two invoices: their invoice numbers differ. Worker 2 may
\* be missing, worker 1 then runs alone.
FsInit ==
    /\ \E h \in [FsWorkers -> Headers], alone \in BOOLEAN :
          /\ h[1].invoice_number # h[2].invoice_number
          /\ fs = [data |-> h,
                   files |-> [f \in FsPaths(h) |-> Absent],
                   at |-> [w \in FsWorkers |->
                              IF alone /\ w = 2 THEN "absent" ELSE "assembled"],
                   out |-> [w \in FsWorkers |-> "none"],
                   mailed |-> [w \in FsWorkers |-> Absent]]
    /\ printed = [j \in Jobs |-> PENDING]
    /\ status = [j \in Jobs |-> ELIGIBLE]
    /\ Idle
    /\ call = NoCall
    /\ mail = NotInUse /\ pcache = NotInUse /\ money = NotInUse
    /\ qr = NotInUse /\ disp = NotInUse
    /\ crypt = NotInUse /\ sched = NotInUse

FsFrame == UNCHANGED <<printed, status, pc, txRows, futures, stage, run, call,
                       mail, pcache, money, qr, disp, crypt, sched>>

\* 2) qr_img.save(qr_path)
FsEncrypt(w) ==
    /\ fs.at[w] = "assembled"
    /\ fs' = [fs EXCEPT
          !.files[QrPath(fs.data[w])] = [kind |-> "png", job |-> w, artifact |-> w],
          !.at[w] = "encrypted"]
    /\ FsFrame

\* 3) populate_html_and_generate_pdf renders data["qr_code_image"], the
\* file:// URL of qr_path, as it is on disk at that moment. What the
\* renderer does with a missing image is not in this repository: it raises,
\* or it writes a document without the image.
FsRender(w) ==
    /\ fs.at[w] = "encrypted"
    /\ LET image == fs.files[QrPath(fs.data[w])]
       IN  \/ fs' = [fs EXCEPT
                 !.files[PdfPath(fs.data[w])] =
                     [kind |-> "pdf", job |-> w, artifact |-> image.artifact],
                 !.at[w] = "rendered"]
           \/ /\ image = Absent
              /\ fs' = [fs EXCEPT !.at[w] = "done", !.out[w] = "exc"]
    /\ FsFrame

\* 4) zipf.write(output_pdf_path); zipf.write(qr_path): a missing file
\* raises FileNotFoundError.
FsArchive(w) ==
    /\ fs.at[w] = "rendered"
    /\ LET image == fs.files[QrPath(fs.data[w])]
           pdf == fs.files[PdfPath(fs.data[w])]
       IN  IF image = Absent \/ pdf = Absent
           THEN fs' = [fs EXCEPT !.at[w] = "done", !.out[w] = "exc"]
           ELSE fs' = [fs EXCEPT
                   !.files[ZipPath(fs.data[w])] =
                       [kind |-> "zip", job |-> w, artifact |-> image.artifact],
                   !.at[w] = "archived"]
    /\ FsFrame

\* 6, 7) The email attaches the PDF (attachment_path=output_pdf_path), the
\* printer gets the PDF too.
FsSend(w) ==
    /\ fs.at[w] = "archived"
    /\ fs' = [fs EXCEPT !.at[w] = "sent",
                        !.mailed[w] = fs.files[PdfPath(fs.data[w])]]
    /\ FsFrame

\* 8) os.remove(output_pdf_path) and os.remove(qr_path) where they exist.
FsCleanup(w) ==
    /\ fs.at[w] = "sent"
    /\ fs' = [fs EXCEPT
          !.files = [f \in DOMAIN fs.files |->
                        IF f \in {PdfPath(fs.data[w]), QrPath(fs.data[w])}
                        THEN Absent ELSE fs.files[f]],
          !.at[w] = "done",
          !.out[w] = "ok"]
    /\ FsFrame

FsNext ==
    \E w \in FsWorkers :
        FsEncrypt(w) \/ FsRender(w) \/ FsArchive(w) \/ FsSend(w) \/ FsCleanup(w)

FsSpec == FsInit /\ [][FsNext]_vars

\* C24: under every interleaving of two workers on different jobs, no
\* worker overwrites or deletes a file the other still reads: each worker
\* returns normally, as it does alone, and the document it mailed and the
\* archive it kept hold the artifact of its own job.
C24_WorkersIsolated ==
    \A w \in FsWorkers :
        fs.at[w] = "done" =>
            /\ fs.out[w] = "ok"
            /\ fs.mailed[w].artifact = w
            /\ fs.files[ZipPath(fs.data[w])].artifact = w

(* --------------------- the recipient list of a job -------------------- *)
\* Step 6 of process_and_print_invoice with get_contacts_for_furnitor and
\* the filtering of send_email_with_attachment, up to the recipients list
\* handed to sendmail.

\* Longest ToEmail / CcEmail column tried, in fields.
MaxRaw == 2

\* Fields tried: two spellings of one address, another address, two that
\* the pattern rejects.
RcptAddrs == {"a@x.com", "A@x.com", "b@x.com", "no-at-sign", ""}

\* str.lower() on these fields.
StrLower(e) == IF e = "A@x.com" THEN "a@x.com" ELSE e

INTERNAL_TEST_CC == <<>>

Range(f) == {f[i] : i \in DOMAIN f}

\* The loop of _parse_email_list from field i on: a field is kept when it
\* is not empty, matches the pattern and its lower-case form was not seen.
RECURSIVE ParseFrom(_, _, _, _)
ParseFrom(items, i, out, seen) ==
    IF i > Len(items) THEN out
    ELSE LET it == items[i]
             key == StrLower(it)
         IN  IF it # "" /\ EmailRegexMatch(it) /\ key \notin seen
             THEN ParseFrom(items, i + 1, Append(out, it), seen \cup {key})
             ELSE ParseFrom(items, i + 1, out, seen)

\* _parse_email_list(raw), raw given as its stripped fields (re.split on
\* ; and , then strip); no field at all is None or the empty string.
ParseEmailList(items) == ParseFrom(items, 1, <<>>, {})

\* list({...}): the elements of a set in some order.
ListsOf(S) == {l \in [1..Cardinality(S) -> S] : Range(l) = S}

\* final_cc as a set, before list().
FinalCcSet(to_supplier, cc_supplier) ==
    IF to_supplier # <<>>
    THEN Range(cc_supplier) \cup Range(DEFAULT_CC_ALWAYS) \cup Range(INTERNAL_TEST_CC)
    ELSE Range(DEFAULT_CC_ALWAYS) \cup Range(INTERNAL_TEST_CC)

RcptInit ==
    /\ \E to \in SeqsUpTo(RcptAddrs, MaxRaw), cc \in SeqsUpTo(RcptAddrs, MaxRaw),
          row \in BOOLEAN :
          mail = [st |-> "routing", row |-> row, ToEmail |-> to, CcEmail |-> cc,
                  to_supplier |-> <<>>, cc_supplier |-> <<>>,
                  final_to |-> <<>>, final_cc |-> <<>>, recipients |-> <<>>]
    /\ printed = [j \in Jobs |-> PENDING]
    /\ status = [j \in Jobs |-> ELIGIBLE]
    /\ Idle
    /\ call = NoCall
    /\ pcache = NotInUse /\ money = NotInUse /\ qr = NotInUse /\ disp = NotInUse
    /\ AuxIdle

\* get_contacts_for_furnitor: no id, no active row or a failed lookup give
\* two empty lists.
RcptContacts ==
    /\ mail.st = "routing"
    /\ mail' = [mail EXCEPT
          !.st = "contacts",
          !.to_supplier = IF mail.row THEN ParseEmailList(mail.ToEmail) ELSE <<>>,
          !.cc_supplier = IF mail.row THEN ParseEmailList(mail.CcEmail) ELSE <<>>]
    /\ MailFrame

\* Lines 628-633: final_to and final_cc.
RcptRoute ==
    /\ mail.st = "contacts"
    /\ \E cc \in ListsOf(FinalCcSet(mail.to_supplier, mail.cc_supplier)) :
          mail' = [mail EXCEPT
              !.st = "routed",
              !.final_to = FinalTo(mail.to_supplier),
              !.final_cc = cc]
    /\ MailFrame

\* send_email_with_attachment, lines 509-530: recipients = to_list + cc_list.
RcptSend ==
    /\ mail.st = "routed"
    /\ LET to_list == ValidOnly(mail.final_to)
           cc_list == ValidOnly(mail.final_cc)
       IN  mail' = IF to_list = <<>>
                   THEN [mail EXCEPT !.st = "raised"]
                   ELSE [mail EXCEPT !.st = "handed",
                                     !.recipients = to_list \o cc_list]
    /\ MailFrame

RcptNext == RcptContacts \/ RcptRoute \/ RcptSend

RcptSpec == RcptInit /\ [][RcptNext]_vars

\* C25: the recipient list handed to the mail relay (To followed by Cc)
\* holds only addresses that match the e-mail pattern, and no two of its
\* addresses are equal ignoring case.
C25_RecipientsValidUnique ==
    mail.st = "handed" =>
        /\ \A i \in 1..Len(mail.recipients) : EmailRegexMatch(mail.recipients[i])
        /\ \A i, k \in 1..Len(mail.recipients) :
              i # k => StrLower(mail.recipients[i]) # StrLower(mail.recipients[k])

(* ------------- the printer cache under concurrent resolves ------------ *)
\* Workers of one batch resolving the printer of one unit at the same time
\* (MAX_WORKERS is 5 in the source; three are enough here).
Resolvers == {1, 2, 3}

\* The unit whose printer they resolve.
HerdKeys == {"7"}

HerdInit ==
    /\ pcache = [now |-> 0,
                 cache |-> [k \in RoutingKeys |-> NoEntry],
                 scan |-> [t \in Resolvers |-> [key |-> "", now |-> 0]],
                 last |-> NoLast]
    /\ printed = [j \in Jobs |-> PENDING]
    /\ status = [j \in Jobs |-> ELIGIBLE]
    /\ Idle
    /\ call = NoCall
    /\ mail = NotInUse /\ money = NotInUse /\ qr = NotInUse /\ disp = NotInUse
    /\ AuxIdle

HerdNext ==
    \/ Tick
    \/ \E t \in Resolvers, k \in HerdKeys : ResolveHit(t, k)
    \/ \E t \in Resolvers, k \in HerdKeys : ScanStart(t, k)
    \/ \E t \in Resolvers : ScanFound(t)
    \/ \E t \in Resolvers : ScanNone(t)

HerdSpec == HerdInit /\ [][HerdNext]_vars

\* The calls that are scanning the subnet of key k.
Scanning(k) == {t \in DOMAIN pcache.scan : pcache.scan[t].key = k}

\* C26: the shared cache is safe under concurrent resolves: an entry is an
\* address that answered a probe with expiry scan start + TTL (at most the
\* clock + TTL), and for one routing key without a live entry concurrent
\* resolves cause at most one scan beyond the first, i.e. never more than
\* two scans of one key are under way.
C26_OneExtraScan ==
    \A k \in RoutingKeys :
        /\ pcache.cache[k] # NoEntry =>
              /\ pcache.cache[k].ip \in Hosts
              /\ pcache.cache[k].expiry <= pcache.now + TtlSec
        /\ Cardinality(Scanning(k)) <= 2

\* C27: a resolve of a key that is excluded (200, 201), outside 0..254 or
\* not an integer returns None, starts no probe and does not write the
\* cache; a scan that finds no responder leaves the cache as it is; and the
\* cache never holds an entry for such a key.
C27_InvalidKeyNoEffect ==
    [][LET Invalid(k) ==
               \/ ~KeyIsInt(k)
               \/ /\ KeyIsInt(k)
                  /\ (KeyInt(k) \in {200, 201} \/ KeyInt(k) < 0 \/ KeyInt(k) > 254)
       IN  /\ (ResolveBegins /\ Invalid(pcache'.last.key)) =>
                  /\ pcache'.last.op = "invalid"
                  /\ pcache'.last.ret = 0
                  /\ pcache'.scan = pcache.scan
                  /\ pcache'.cache = pcache.cache
           /\ (pcache' # pcache /\ pcache'.last.op = "scan_none") =>
                  pcache'.cache = pcache.cache
           /\ \A k \in RoutingKeys :
                  Invalid(k) => pcache'.cache[k] = NoEntry]_vars

\* A resolve of the excluded unit 200 has just returned None while the
\* printer of unit 7 is cached and a scan for unit 9 is under way.
C27_Witness ==
    /\ pcache.last = [op |-> "invalid", key |-> "200", ret |-> 0]
    /\ pcache.cache["7"] # NoEntry
    /\ pcache.cache["200"] = NoEntry
    /\ \E t \in Threads : pcache.scan[t].key = "9"

(* ------------------------ delivery and fairness ----------------------- *)
\* C28: once the email of a job has been delivered the job is never
\* Pending again and never processed again (no new run of it begins), so
\* the Notifier delivers the email of a job at most once.
C28_DeliveredOnce ==
    [][\A j \in Jobs :
          run[j] = "sent" => (run'[j] = "sent" /\ printed'[j] # PENDING)]_vars

\* Jobs whose pipeline fails on every run (no header row, no valid
\* recipient): as many as one claim takes. The pipeline of the others
\* succeeds on every run.
Doomed == 1..MaxWorkers

\* A run of a doomed job: get_invoice_details returns None.
DoomedWorker(p, j) ==
    /\ j \in Doomed
    /\ Assemble(p, j)
    /\ stage'[p][j] = "exc"

\* A run of any other job: no stage raises.
SoundWorker(p, j) ==
    /\ j \notin Doomed
    /\ Worker(p, j)
    /\ stage'[p][j] # "exc"

\* The store is reachable: every statement commits.
ReachablePoll(p) == ClaimExecute(p) \/ ClaimNone(p) \/ ClaimCommit(p)

ReachableHandle(p, j) == HandleOkFinalize(p, j) \/ HandleExcRevert(p, j)

\* Every job is Pending and eligible.
StarveInit ==
    /\ printed = [j \in Jobs |-> PENDING]
    /\ status = [j \in Jobs |-> ELIGIBLE]
    /\ Idle
    /\ call = NoCall
    /\ CompIdle

StarveNext ==
    \/ \E p \in Procs : ReachablePoll(p)
    \/ \E p \in Procs, j \in Jobs : ReachableHandle(p, j)
    \/ \E p \in Procs, j \in Jobs : DoomedWorker(p, j)
    \/ \E p \in Procs, j \in Jobs : SoundWorker(p, j)

\* The loop keeps polling, handles every completed future, and every
\* worker thread runs on.
StarveSpec ==
    /\ StarveInit
    /\ [][StarveNext]_vars
    /\ \A p \in Procs : WF_vars(ReachablePoll(p))
    /\ \A p \in Procs, j \in Jobs : WF_vars(ReachableHandle(p, j))
    /\ \A p \in Procs, j \in Jobs : WF_vars(DoomedWorker(p, j) \/ SoundWorker(p, j))

\* C29: with the loop polling and the store reachable, every Pending,
\* eligible job whose pipeline succeeds is eventually Printed, whatever
\* other Pending jobs fail on every run.
C29_NoStarvation ==
    \A j \in Jobs \ Doomed :
        (printed[j] = PENDING /\ status[j] = ELIGIBLE) ~> (printed[j] = PRINTED)

(* ------------------ sales_service: the outbox scheduler --------------- *)
\* The application thread calls start_sales_outbox_scheduler and
\* stop_sales_outbox_scheduler one after the other; worker threads run
\* _sales_outbox_worker. A thread and the Event made for it share one
\* number; 0 is None.

\* Most worker threads ever started.
MaxThreads == 3

WorkerIds == 1..MaxThreads

\* Positions of a worker inside the loop.
InLoop == {"check", "pushing", "waiting"}

\* Thread.is_alive()
IsAlive(w) == w # 0 /\ sched.at[w] \in InLoop

SchedInit ==
    /\ sched = [thread |-> 0,       \* _scheduler_thread
                event |-> 0,        \* _scheduler_stop_event
                isSet |-> [e \in WorkerIds |-> FALSE],
                at |-> [w \in WorkerIds |-> "unborn"],
                started |-> 0,
                caller |-> "idle",
                last |-> "none"]
    /\ printed = [j \in Jobs |-> PENDING]
    /\ status = [j \in Jobs |-> ELIGIBLE]
    /\ Idle
    /\ call = NoCall
    /\ mail = NotInUse /\ pcache = NotInUse /\ money = NotInUse
    /\ qr = NotInUse /\ disp = NotInUse
    /\ crypt = NotInUse /\ fs = NotInUse

SchedFrame == UNCHANGED <<printed, status, pc, txRows, futures, stage, run, call,
                          mail, pcache, money, qr, disp, crypt, fs>>

\* start_sales_outbox_scheduler: a thread that is alive -> warning, return.
StartAlreadyRunning ==
    /\ sched.caller = "idle"
    /\ IsAlive(sched.thread)
    /\ sched' = [sched EXCEPT !.last = "already_running"]
    /\ SchedFrame

\* start_sales_outbox_scheduler: a new Event, a new Thread, start().
StartNew ==
    /\ sched.caller = "idle"
    /\ ~IsAlive(sched.thread)
    /\ sched.started < MaxThreads
    /\ LET w == sched.started + 1 IN
          sched' = [sched EXCEPT
              !.event = w,
              !.isSet[w] = FALSE,
              !.thread = w,
              !.at[w] = "check",
              !.started = w,
              !.last = "started"]
    /\ SchedFrame

\* stop_sales_outbox_scheduler with no thread recorded: return.
StopNoThread ==
    /\ sched.caller = "idle"
    /\ sched.thread = 0
    /\ sched' = [sched EXCEPT !.last = "stop_noop"]
    /\ SchedFrame

\* stop_sales_outbox_scheduler: _scheduler_stop_event.set(), then join.
StopSet ==
    /\ sched.caller = "idle"
    /\ sched.thread # 0
    /\ sched' = [sched EXCEPT !.isSet[sched.event] = TRUE, !.caller = "joining"]
    /\ SchedFrame

\* join(timeout=10) returns: the thread has ended, or ten seconds have
\* passed while it is inside push_sales. Both globals are set to None.
StopJoined ==
    /\ sched.caller = "joining"
    /\ ~IsAlive(sched.thread) \/ sched.at[sched.thread] = "pushing"
    /\ sched' = [sched EXCEPT
          !.thread = 0, !.event = 0, !.caller = "idle",
          !.last = IF IsAlive(sched.thread) THEN "join_timeout" ELSE "joined"]
    /\ SchedFrame

\* `while not _scheduler_stop_event.is_set()`: the global is read at every
\* test; None has no is_set and the AttributeError ends the thread.
WorkerCheck(w) ==
    /\ sched.at[w] = "check"
    /\ sched' = [sched EXCEPT !.at[w] =
          IF sched.event = 0 THEN "dead"
          ELSE IF sched.isSet[sched.event] THEN "dead"
          ELSE "pushing"]
    /\ SchedFrame

\* push_sales() returns, or raises and is logged.
WorkerPushed(w) ==
    /\ sched.at[w] = "pushing"
    /\ sched' = [sched EXCEPT !.at[w] = "waiting"]
    /\ SchedFrame

\* _scheduler_stop_event.wait(interval_seconds) on the global as it is
\* now: it returns when that event is set or the interval is over.
WorkerWaited(w) ==
    /\ sched.at[w] = "waiting"
    /\ sched' = [sched EXCEPT !.at[w] = IF sched.event = 0 THEN "dead" ELSE "check"]
    /\ SchedFrame

SchedNext ==
    \/ StartAlreadyRunning
    \/ StartNew
    \/ StopNoThread
    \/ StopSet
    \/ StopJoined
    \/ \E w \in WorkerIds : WorkerCheck(w)
    \/ \E w \in WorkerIds : WorkerPushed(w)
    \/ \E w \in WorkerIds : WorkerWaited(w)

SchedSpec == SchedInit /\ [][SchedNext]_vars

\* C30: after any sequence of start and stop calls at most one worker
\* thread is executing the loop of _sales_outbox_worker, and a start issued
\* while a worker is running starts no second one.
C30_AtMostOneWorker ==
    Cardinality({w \in WorkerIds : sched.at[w] \in InLoop}) <= 1
====
